---- MODULE Spec2Model ----
(***************************************************************************)
(* A model of quarto_tools' block testing engine (pytest_qmd.py, blocks.py) *)
(* QuartoPyTest.run (syntax / exec mode, one process) and                   *)
(* QuartoPyTest.run_parallel (one `ipython script.py` child per chapter,    *)
(* run by n_workers asyncio worker tasks over an asyncio.Queue).            *)
(***************************************************************************)
EXTENDS Integers, Sequences, FiniteSets, TLC

VARIABLES
  sources,         \* _discover_sources(): the source documents, in project order
  n_workers,       \* run_parallel(n_workers=...)
  interp,          \* TRUE iff the `ipython` executable resolves on the execution path
  pc,              \* where the calling (coordinator) control flow stands
  manifest,        \* extract(): the rows of extract_df
  scripts,         \* run_parallel: list of script paths handed to the engine
  qmd_for_script,  \* run_parallel: dict script path -> resolved document path
  queue,           \* asyncio.Queue: item numbers (positions in scripts), FIFO
  unfinished,      \* asyncio.Queue._unfinished_tasks (what queue.join() waits on)
  results,         \* dict script path -> returncode, in insertion order
  wst,             \* per worker task: where the coroutine is suspended
  witem,           \* per worker task: the queue item it holds (0: none)
  ist,             \* per queue item: state of its child process
  irc,             \* per queue item: exit code of its child process
  records,         \* the rows of the returned result table
  mode,            \* run(mode=...) / "exec-parallel"
  idx,             \* run(): number of blocks already tested in the current call
  ns,              \* names bound in InteractiveShell.instance()'s user namespace
  ns0,             \* the value of ns when the current run() call started
  calls,           \* number of run() calls made so far in this process
  files,           \* the files under output_dir: dict path -> content
  iso,             \* per queue item: the standard output captured from its child
  ise,             \* per queue item: the standard error captured from its child
  iargv,           \* per queue item: the argument vector its child was started with
  qmd_text,        \* extract_code_blocks: the document text, line by line
  found,           \* extract_code_blocks: what each call made so far returned
  ctx_in,          \* resolve_quarto_context: input_path, explicit_files, file_patterns
  ctx_out,         \* resolve_quarto_context: the tuple returned
  discovered       \* discover_quarto_sources on that tuple: sources or the error

vars == <<sources, n_workers, interp, pc, manifest, scripts, qmd_for_script,
          queue, unfinished, results, wst, witem, ist, irc, records,
          mode, idx, ns, ns0, calls, files, iso, ise, iargv,
          qmd_text, found, ctx_in, ctx_out, discovered>>

parVars == <<manifest, scripts, qmd_for_script, queue, unfinished, results,
             wst, witem, ist, irc, files, iso, ise, iargv>>

sideVars == <<files, iso, ise, iargv>>

extVars == <<qmd_text, found>>

ctxVars == <<ctx_in, ctx_out, discovered>>

runVars == <<mode, idx, ns, ns0, calls>>

\* ------------------------------------------------------------ bounds

MaxDocs == 3

MaxWorkers == 2

MaxBlocks == 2

MaxCalls == 2

\* Python's None for a string-valued field, and for an integer-valued one
None == "None"

NoInt == <<>>

NoMsg == <<>>

SomeInt(n) == <<n>>

\* ------------------------------------------------------------ generic helpers

Range(s) == {s[i] : i \in 1..Len(s)}

RECURSIVE Flatten(_)
Flatten(ss) == IF ss = <<>> THEN <<>> ELSE Head(ss) \o Flatten(Tail(ss))

\* A Python dict as the sequence of its <<key, value>> items in insertion order.
DictKeys(d) == {d[i][1] : i \in 1..Len(d)}

DictGet(d, k, default) ==
  IF k \in DictKeys(d)
  THEN LET i == CHOOSE j \in 1..Len(d) : d[j][1] = k IN d[i][2]
  ELSE default

\* d[k] = v: a present key keeps its position, a new key is appended
DictSet(d, k, v) ==
  IF k \in DictKeys(d)
  THEN [i \in 1..Len(d) |-> IF d[i][1] = k THEN <<k, v>> ELSE d[i]]
  ELSE Append(d, <<k, v>>)

\* ------------------------------------------------------------ paths (pathlib)

\* A path: the directory it is spelled under (root), whether its spelling is
\* the one Path.resolve() returns (canon), the file's stem and its suffix.
SrcPath(stem, ext, canon) ==
  [root |-> "base", canon |-> canon, stem |-> stem, ext |-> ext]

\* file.relative_to(self.base_dir)
RelativeTo(p) == [p EXCEPT !.root = "rel"]

\* root / rel
Under(root, rel) == [rel EXCEPT !.root = root]

\* p.with_suffix(ext)
WithSuffix(p, ext) == [p EXCEPT !.ext = ext]

\* p.resolve()
Resolve(p) == [p EXCEPT !.canon = TRUE]

\* ------------------------------------------------------------ block sources

\* One top-level statement of a block: the name it binds ("" if none), the
\* names it reads, and what compiling it does ("ok"; "syntax": SyntaxError,
\* at column col if the exception carries a position; "other": another
\* exception out of compile()).
AssignX == [binds |-> "x", reads |-> {}, comp |-> "ok"]

PrintX == [binds |-> "", reads |-> {"x"}, comp |-> "ok"]

AssignY == [binds |-> "y", reads |-> {}, comp |-> "ok"]

PrintY == [binds |-> "", reads |-> {"y"}, comp |-> "ok"]

PrintZ == [binds |-> "", reads |-> {"z"}, comp |-> "ok"]

\* `def f(:` is refused at column 7
BadDef == [binds |-> "", reads |-> {}, comp |-> "syntax", col |-> SomeInt(7)]

\* a NUL byte in the source: a SyntaxError whose lineno and offset are None
NulByte == [binds |-> "", reads |-> {}, comp |-> "syntax", col |-> NoInt]

DeepExpr == [binds |-> "", reads |-> {}, comp |-> "other"]

\* `x = 1`
CodeAssignX == <<AssignX>>

\* `print(x)`
CodePrintX == <<PrintX>>

\* `def f(:`
CodeBadDef == <<BadDef>>

\* `y = 1` then `print(z)` on the next line
CodeAssignYPrintZ == <<AssignY, PrintZ>>

\* `print(y)`
CodePrintY == <<PrintY>>

\* an expression nested deeper than the compiler's recursion limit
CodeDeep == <<DeepExpr>>

\* a block holding a NUL byte
CodeNul == <<NulByte>>

Codes == {CodeAssignX, CodePrintX, CodeBadDef, CodeAssignYPrintZ, CodePrintY,
          CodeDeep, CodeNul}

\* A fenced region of a document: ```{lang} code ```
Fence(lang, code) == [lang |-> lang, code |-> code]

\* ------------------------------------------------------------ blocks.py

\* str.lower() on the language tags used here
Lower(lang) == IF lang = "Python" THEN "python" ELSE lang

RECURSIVE MatchIdx(_, _, _)
\* enumerate(BLOCK_RE.finditer(text), start=1) with the `continue` of line 87:
\* the positions i >= from of the fences whose language is lang
MatchIdx(text, lang, from) ==
  IF from > Len(text) THEN <<>>
  ELSE IF Lower(text[from].lang) = Lower(lang)
       THEN <<from>> \o MatchIdx(text, lang, from + 1)
       ELSE MatchIdx(text, lang, from + 1)

\* extract_code_blocks(text, file, lang="python"): every fenced region takes
\* the next index, only the regions whose language matches are emitted
extract_code_blocks(text, file) ==
  LET hits == MatchIdx(text, "python", 1)
  IN [k \in 1..Len(hits) |->
        [file |-> file, block_index |-> hits[k], lang |-> text[hits[k]].lang,
         code |-> text[hits[k]].code]]

\* QuartoPyTest._collect_block_objects
CollectBlocks(srcs) ==
  Flatten([d \in 1..Len(srcs) |-> extract_code_blocks(srcs[d].text, srcs[d].file)])

\* ------------------------------------------------------------ blocks.py, line by line

\* The lines a document text is made of.
\* "```{lang}"
OpenLine(lang) == [k |-> "open", lang |-> lang]

\* "```"
CloseLine == [k |-> "close"]

\* a line of code holding one statement
CodeLine(stmt) == [k |-> "code", stmt |-> stmt]

\* "#| label: fig-a"
LabelLine == [k |-> "label", v |-> "fig-a"]

\* "#| fig-cap: 'A plot'"
CapLine == [k |-> "cap", v |-> "A plot"]

\* an empty line
BlankLine == [k |-> "blank"]

\* a line of prose
ProseLine == [k |-> "prose"]

\* the least position >= from of a line of one of the kinds, 0 if there is none
NextOf(lines, kinds, from) ==
  LET js == {j \in from..Len(lines) : lines[j].k \in kinds}
  IN IF js = {} THEN 0 ELSE CHOOSE j \in js : \A h \in js : j <= h

RECURSIVE BlockMatches(_, _)
\* BLOCK_RE.finditer(text) from line `from` on: a match starts at the next
\* "```{lang}" and its code group runs, lazily, to the next "```" wherever
\* that one stands (a closing fence or the backticks of another opening
\* fence); the search goes on after those backticks
BlockMatches(lines, from) ==
  LET j == NextOf(lines, {"open"}, from)
      e == IF j = 0 THEN 0 ELSE NextOf(lines, {"open", "close"}, j + 1)
  IN IF j = 0 \/ e = 0 THEN <<>>
     ELSE <<[lang |-> lines[j].lang, open |-> j, close |-> e]>>
          \o BlockMatches(lines, e + 1)

\* the lines of match m that are left in the code group: `\s*` after the
\* opening fence eats the empty lines in front, strip("\n") the empty lines
\* at both ends
Body(lines, m) == {j \in (m.open + 1)..(m.close - 1) : lines[j].k # "blank"}

FirstOf(S) == CHOOSE j \in S : \A h \in S : j <= h

LastOf(S) == CHOOSE j \in S : \A h \in S : j >= h

\* code = match.group("code").strip("\n")
CodeOf(lines, m) ==
  IF Body(lines, m) = {} THEN <<>>
  ELSE SubSeq(lines, FirstOf(Body(lines, m)), LastOf(Body(lines, m)))

\* start_line = text[:match.start("code")].count("\n") + 1
StartLine(lines, m) ==
  IF Body(lines, m) = {} THEN m.close ELSE FirstOf(Body(lines, m))

\* LABEL_RE.search(code) / CAPTION_RE.search(code): the first annotation of
\* the kind in the code, None if there is none
Annotation(code, kind) ==
  LET js == {j \in 1..Len(code) : code[j].k = kind}
  IN IF js = {} THEN None ELSE code[FirstOf(js)].v

\* a version that numbers the emitted blocks 1, 2, ... after filtering
ExtractCodeBlocksRenumbered(lines, file, lang) ==
  LET ms == BlockMatches(lines, 1)
      hits == IF lang = None THEN [i \in 1..Len(ms) |-> i] ELSE MatchIdx(ms, lang, 1)
  IN [h \in 1..Len(hits) |->
        [file |-> file, block_index |-> h, lang |-> ms[hits[h]].lang,
         label |-> Annotation(CodeOf(lines, ms[hits[h]]), "label"),
         caption |-> Annotation(CodeOf(lines, ms[hits[h]]), "cap"),
         code |-> CodeOf(lines, ms[hits[h]]),
         start_line |-> StartLine(lines, ms[hits[h]]),
         end_line |-> StartLine(lines, ms[hits[h]])
                      + (IF CodeOf(lines, ms[hits[h]]) = <<>> THEN 0
                         ELSE Len(CodeOf(lines, ms[hits[h]])) - 1)]]

\* extract_code_blocks(text, file, lang) on a text given line by line
ExtractCodeBlocks(lines, file, lang) ==
  LET ms == BlockMatches(lines, 1)
      hits == IF lang = None THEN [i \in 1..Len(ms) |-> i] ELSE MatchIdx(ms, lang, 1)
  IN [h \in 1..Len(hits) |->
        [file |-> file, block_index |-> hits[h], lang |-> ms[hits[h]].lang,
         label |-> Annotation(CodeOf(lines, ms[hits[h]]), "label"),
         caption |-> Annotation(CodeOf(lines, ms[hits[h]]), "cap"),
         code |-> CodeOf(lines, ms[hits[h]]),
         start_line |-> StartLine(lines, ms[hits[h]]),
         end_line |-> StartLine(lines, ms[hits[h]])
                      + (IF CodeOf(lines, ms[hits[h]]) = <<>> THEN 0
                         ELSE Len(CodeOf(lines, ms[hits[h]])) - 1)]]

\* ------------------------------------------------------------ extract()

RECURSIVE ByFileKeys(_, _)
\* the keys of by_file, in insertion order (first block of each file)
ByFileKeys(blocks, seen) ==
  IF blocks = <<>> THEN <<>>
  ELSE IF Head(blocks).file \in seen THEN ByFileKeys(Tail(blocks), seen)
       ELSE <<Head(blocks).file>> \o ByFileKeys(Tail(blocks), seen \cup {Head(blocks).file})

\* py_path = (output_dir / rel).with_suffix(".py")
ScriptPath(file) == WithSuffix(Under("out", RelativeTo(file)), "py")

\* QuartoPyTest.extract: one row per file that has python blocks
ExtractManifest(srcs) ==
  LET blocks == CollectBlocks(srcs)
      keys == ByFileKeys(blocks, {})
  IN [k \in 1..Len(keys) |->
        [file |-> RelativeTo(keys[k]),
         py_file |-> RelativeTo(ScriptPath(keys[k])),
         blocks |-> Cardinality({i \in 1..Len(blocks) : blocks[i].file = keys[k]})]]

\* header = "# === Block {block_index}"
Header(block) == [kind |-> "header", block_index |-> block.block_index]

\* lines 204-214: per block a header line, the code, an empty line
ScriptLines(file_blocks) ==
  Flatten([k \in 1..Len(file_blocks) |->
             <<Header(file_blocks[k]),
               [kind |-> "code", code |-> file_blocks[k].code],
               [kind |-> "blank"]>>])

\* by_file[src], in block order
FileBlocks(blocks, src) == SelectSeq(blocks, LAMBDA b : b.file = src)

RECURSIVE WriteScripts(_, _, _)
\* lines 197-220: py_path.write_text(text) for each key of by_file, in order
WriteScripts(keys, blocks, fs) ==
  IF keys = <<>> THEN fs
  ELSE WriteScripts(Tail(keys), blocks,
         DictSet(fs, ScriptPath(Head(keys)), ScriptLines(FileBlocks(blocks, Head(keys)))))

\* the files extract() leaves under output_dir
ExtractFiles(srcs, fs) ==
  LET blocks == CollectBlocks(srcs)
  IN WriteScripts(ByFileKeys(blocks, {}), blocks, fs)

\* ------------------------------------------------------------ worker side files

\* str.split() of the file stems used here
StemWords(stem) == IF stem = "my ch" THEN <<"my", "ch">> ELSE <<stem>>

\* str(path) as the sequence of its whitespace-free words, each word a sequence
\* of parts
PathWords(p) ==
  LET ws == StemWords(p.stem)
  IN [k \in 1..Len(ws) |->
        (IF k = 1 THEN <<p.root, "/">> ELSE <<>>) \o <<ws[k]>>
        \o (IF k = Len(ws) THEN <<".", p.ext>> ELSE <<>>)]

\* shlex.split(f"ipython {script}", posix=False): the command line is cut at
\* every run of whitespace
Argv(script) == << <<"ipython">> >> \o PathWords(script)

\* a version without `or so`: the .error file takes standard error only
WriteSideFilesStderrOnly(fs, script, rc, so, se) ==
  LET f1 == IF so # "" THEN DictSet(fs, WithSuffix(script, "output"), so) ELSE fs
      f2 == IF se # "" THEN DictSet(f1, WithSuffix(script, "stderr"), se) ELSE f1
  IN IF rc # 0 /\ se # ""
     THEN DictSet(f2, WithSuffix(script, "error"), se)
     ELSE f2

\* lines 379-394: the side files written for a script that ended with rc
WriteSideFiles(fs, script, rc, so, se) ==
  LET f1 == IF so # "" THEN DictSet(fs, WithSuffix(script, "output"), so) ELSE fs
      f2 == IF se # "" THEN DictSet(f1, WithSuffix(script, "stderr"), se) ELSE f1
      err_text == IF se # "" THEN se ELSE so
  IN IF rc # 0 /\ err_text # ""
     THEN DictSet(f2, WithSuffix(script, "error"), err_text)
     ELSE f2

\* ------------------------------------------------------------ run_parallel

\* The source documents a parallel run is tried on.
DocA == [file |-> SrcPath("a", "qmd", TRUE),
         text |-> <<Fence("python", CodeAssignX), Fence("bash", CodeAssignX),
                    Fence("Python", CodePrintX)>>]

\* same stem as DocA, another suffix
DocA2 == [file |-> SrcPath("a", "md", TRUE),
          text |-> <<Fence("python", CodeAssignX)>>]

DocB == [file |-> SrcPath("b", "qmd", TRUE),
         text |-> <<Fence("python", CodeAssignX), Fence("python", CodePrintX)>>]

\* a path whose spelling is not the resolved one (relative base_dir, `..`, link)
DocC == [file |-> SrcPath("c", "qmd", FALSE),
         text |-> <<Fence("python", CodeAssignX)>>]

\* a document without python blocks
DocE == [file |-> SrcPath("e", "qmd", TRUE),
         text |-> <<Fence("bash", CodeAssignX)>>]

ParDocs == {DocA, DocA2, DocB, DocC, DocE}

\* exit codes a child process is let to end with
ExitCodes == {0, 1, 2}

\* what a child is let to write in the runs where only its exit code varies:
\* its prints on standard output, and a traceback on standard error when it
\* ends with code 1
UsualOut(rc) == IF rc = 2 THEN "" ELSE "out"

UsualErr(rc) == IF rc = 1 THEN "err" ELSE ""

Workers == 1..n_workers

\* len(range(n_workers)): the number of worker tasks created
NTasks == IF n_workers > 0 THEN n_workers ELSE 0

Items == 1..Len(scripts)

\* script_path = output_dir / rel_py, for each row of extract_df
ScriptsOf(mf) == [k \in 1..Len(mf) |-> Under("out", mf[k].py_file)]

RECURSIVE QmdForScript(_, _)
\* qmd_for_script[script_path] = (self.base_dir / rel_qmd).resolve()
QmdForScript(mf, acc) ==
  IF mf = <<>> THEN acc
  ELSE QmdForScript(Tail(mf),
         DictSet(acc, Under("out", Head(mf).py_file),
                 Resolve(Under("base", Head(mf).file))))

\* The first step of the worker tasks once the coordinator awaits queue.join():
\* in creation order each takes the next queued item, or blocks in queue.get().
FirstItem(w, m) == IF w <= m THEN w ELSE 0

\* run_parallel, lines 482-501: nothing to run
RunParallelEmpty ==
  /\ pc = "start"
  /\ ExtractManifest(sources) = <<>>
  /\ pc' = "returned"
  /\ mode' = "exec-parallel"
  /\ manifest' = <<>>
  /\ records' = <<>>
  /\ UNCHANGED <<extVars, ctxVars, sources, n_workers, interp, scripts, qmd_for_script, queue,
                 unfinished, results, wst, witem, ist, irc, idx, ns, ns0, calls>>
  /\ UNCHANGED sideVars

\* run_parallel, lines 482-513, and _run_scripts_parallel up to its
\* `await queue.join()`, where the worker tasks take their first items
RunParallelStart ==
  /\ pc = "start"
  /\ ExtractManifest(sources) # <<>>
  /\ LET mf == ExtractManifest(sources)
         m == Len(mf)
     IN /\ manifest' = mf
        /\ scripts' = ScriptsOf(mf)
        /\ qmd_for_script' = QmdForScript(mf, <<>>)
        /\ queue' = [k \in 1..(IF m > NTasks THEN m - NTasks ELSE 0) |-> NTasks + k]
        /\ unfinished' = m
        /\ results' = <<>>
        /\ wst' = [w \in Workers |-> IF w <= m THEN "spawn" ELSE "get"]
        /\ witem' = [w \in Workers |-> FirstItem(w, m)]
        /\ ist' = [i \in 1..m |-> IF i <= NTasks THEN "spawning" ELSE "queued"]
        /\ irc' = [i \in 1..m |-> 0]
        /\ iso' = [i \in 1..m |-> ""]
        /\ ise' = [i \in 1..m |-> ""]
        /\ iargv' = [i \in 1..m |-> <<>>]
  /\ files' = ExtractFiles(sources, files)
  /\ pc' = "join"
  /\ mode' = "exec-parallel"
  /\ UNCHANGED <<extVars, ctxVars, sources, n_workers, interp, records, idx, ns, ns0, calls>>

\* a worker that does not await proc.communicate(): it marks the item done
\* and takes the next one while the child is still running
SpawnOkNoAwait(w) ==
  /\ pc = "join"
  /\ wst[w] = "spawn"
  /\ interp
  /\ unfinished' = unfinished - 1
  /\ IF queue # <<>>
     THEN /\ queue' = Tail(queue)
          /\ witem' = [witem EXCEPT ![w] = Head(queue)]
          /\ wst' = wst
          /\ ist' = [ist EXCEPT ![witem[w]] = "running", ![Head(queue)] = "spawning"]
     ELSE /\ queue' = queue
          /\ witem' = [witem EXCEPT ![w] = 0]
          /\ wst' = [wst EXCEPT ![w] = "get"]
          /\ ist' = [ist EXCEPT ![witem[w]] = "running"]
  /\ iargv' = [iargv EXCEPT ![witem[w]] = Argv(scripts[witem[w]])]
  /\ UNCHANGED <<extVars, ctxVars, sources, n_workers, interp, pc, manifest, scripts, qmd_for_script,
                 results, irc, records, mode, idx, ns, ns0, calls, files, iso, ise>>

\* asyncio.create_subprocess_exec returns: the child process is running and
\* the worker awaits proc.communicate()
SpawnOk(w) ==
  /\ pc = "join"
  /\ wst[w] = "spawn"
  /\ interp
  /\ wst' = [wst EXCEPT ![w] = "communicate"]
  /\ ist' = [ist EXCEPT ![witem[w]] = "running"]
  /\ iargv' = [iargv EXCEPT ![witem[w]] = Argv(scripts[witem[w]])]
  /\ UNCHANGED <<extVars, ctxVars, sources, n_workers, interp, pc, manifest, scripts, qmd_for_script,
                 queue, unfinished, results, witem, irc, records, mode, idx, ns,
                 ns0, calls, files, iso, ise>>

\* asyncio.create_subprocess_exec raises (no `ipython` to run): the finally
\* clause marks the item done and the exception ends the worker task
SpawnFail(w) ==
  /\ pc = "join"
  /\ wst[w] = "spawn"
  /\ ~interp
  /\ wst' = [wst EXCEPT ![w] = "failed"]
  /\ ist' = [ist EXCEPT ![witem[w]] = "nospawn"]
  /\ witem' = [witem EXCEPT ![w] = 0]
  /\ unfinished' = unfinished - 1
  /\ UNCHANGED <<extVars, ctxVars, sources, n_workers, interp, pc, manifest, scripts, qmd_for_script,
                 queue, results, irc, records, mode, idx, ns, ns0, calls>>
  /\ UNCHANGED sideVars

\* the child process of item i terminates with exit code rc, having written
\* so to its standard output and se to its standard error
ProcExit(i, rc, so, se) ==
  /\ pc = "join"
  /\ ist[i] = "running"
  /\ ist' = [ist EXCEPT ![i] = "exited"]
  /\ irc' = [irc EXCEPT ![i] = rc]
  /\ iso' = [iso EXCEPT ![i] = so]
  /\ ise' = [ise EXCEPT ![i] = se]
  /\ UNCHANGED <<extVars, ctxVars, sources, n_workers, interp, pc, manifest, scripts, qmd_for_script,
                 queue, unfinished, results, wst, witem, records, mode, idx, ns,
                 ns0, calls, files, iargv>>

\* a worker that records the exit code without writing the captured streams
WorkerResumeNoWrite(w) ==
  /\ pc = "join"
  /\ wst[w] = "communicate"
  /\ ist[witem[w]] = "exited"
  /\ results' = DictSet(results, scripts[witem[w]], irc[witem[w]])
  /\ unfinished' = unfinished - 1
  /\ IF queue # <<>>
     THEN /\ queue' = Tail(queue)
          /\ witem' = [witem EXCEPT ![w] = Head(queue)]
          /\ wst' = [wst EXCEPT ![w] = "spawn"]
          /\ ist' = [ist EXCEPT ![witem[w]] = "done", ![Head(queue)] = "spawning"]
     ELSE /\ queue' = queue
          /\ witem' = [witem EXCEPT ![w] = 0]
          /\ wst' = [wst EXCEPT ![w] = "get"]
          /\ ist' = [ist EXCEPT ![witem[w]] = "done"]
  /\ UNCHANGED <<extVars, ctxVars, sources, n_workers, interp, pc, manifest, scripts, qmd_for_script,
                 irc, records, mode, idx, ns, ns0, calls, files, iso, ise, iargv>>

\* a worker over a queue that hands out the item put last (a LifoQueue)
WorkerResumeLifo(w) ==
  /\ pc = "join"
  /\ wst[w] = "communicate"
  /\ ist[witem[w]] = "exited"
  /\ results' = DictSet(results, scripts[witem[w]], irc[witem[w]])
  /\ unfinished' = unfinished - 1
  /\ IF queue # <<>>
     THEN /\ queue' = SubSeq(queue, 1, Len(queue) - 1)
          /\ witem' = [witem EXCEPT ![w] = queue[Len(queue)]]
          /\ wst' = [wst EXCEPT ![w] = "spawn"]
          /\ ist' = [ist EXCEPT ![witem[w]] = "done", ![queue[Len(queue)]] = "spawning"]
     ELSE /\ queue' = queue
          /\ witem' = [witem EXCEPT ![w] = 0]
          /\ wst' = [wst EXCEPT ![w] = "get"]
          /\ ist' = [ist EXCEPT ![witem[w]] = "done"]
  /\ files' = WriteSideFiles(files, scripts[witem[w]], irc[witem[w]],
                             iso[witem[w]], ise[witem[w]])
  /\ UNCHANGED <<extVars, ctxVars, sources, n_workers, interp, pc, manifest, scripts, qmd_for_script,
                 irc, records, mode, idx, ns, ns0, calls, iso, ise, iargv>>

\* proc.communicate() returns: the worker writes the captured streams next to
\* the script, records the exit code, marks the item done, and is back in
\* queue.get(), taking the next item if there is one
WorkerResume(w) ==
  /\ pc = "join"
  /\ wst[w] = "communicate"
  /\ ist[witem[w]] = "exited"
  /\ results' = DictSet(results, scripts[witem[w]], irc[witem[w]])
  /\ unfinished' = unfinished - 1
  /\ IF queue # <<>>
     THEN /\ queue' = Tail(queue)
          /\ witem' = [witem EXCEPT ![w] = Head(queue)]
          /\ wst' = [wst EXCEPT ![w] = "spawn"]
          /\ ist' = [ist EXCEPT ![witem[w]] = "done", ![Head(queue)] = "spawning"]
     ELSE /\ queue' = queue
          /\ witem' = [witem EXCEPT ![w] = 0]
          /\ wst' = [wst EXCEPT ![w] = "get"]
          /\ ist' = [ist EXCEPT ![witem[w]] = "done"]
  /\ files' = WriteSideFiles(files, scripts[witem[w]], irc[witem[w]],
                             iso[witem[w]], ise[witem[w]])
  /\ UNCHANGED <<extVars, ctxVars, sources, n_workers, interp, pc, manifest, scripts, qmd_for_script,
                 irc, records, mode, idx, ns, ns0, calls, iso, ise, iargv>>

\* a coordinator that does not wait for the queue to drain
JoinReturnNoWait ==
  /\ pc = "join"
  /\ pc' = "gather"
  /\ wst' = [w \in Workers |-> IF wst[w] \in {"failed", "cancelled"} THEN wst[w]
                               ELSE "cancelling"]
  /\ UNCHANGED <<extVars, ctxVars, sources, n_workers, interp, manifest, scripts, qmd_for_script,
                 queue, unfinished, results, witem, ist, irc, records, mode, idx,
                 ns, ns0, calls>>
  /\ UNCHANGED sideVars

\* queue.join() returns; task.cancel() for every task; await asyncio.gather
JoinReturn ==
  /\ pc = "join"
  /\ unfinished = 0
  /\ pc' = "gather"
  /\ wst' = [w \in Workers |-> IF wst[w] \in {"failed", "cancelled"} THEN wst[w]
                               ELSE "cancelling"]
  /\ UNCHANGED <<extVars, ctxVars, sources, n_workers, interp, manifest, scripts, qmd_for_script,
                 queue, unfinished, results, witem, ist, irc, records, mode, idx,
                 ns, ns0, calls>>
  /\ UNCHANGED sideVars

\* CancelledError is thrown into a worker task at its await
WorkerCancelled(w) ==
  /\ pc = "gather"
  /\ wst[w] = "cancelling"
  /\ wst' = [wst EXCEPT ![w] = "cancelled"]
  /\ UNCHANGED <<extVars, ctxVars, sources, n_workers, interp, pc, manifest, scripts, qmd_for_script,
                 queue, unfinished, results, witem, ist, irc, records, mode, idx,
                 ns, ns0, calls>>
  /\ UNCHANGED sideVars

\* asyncio.gather(*tasks, return_exceptions=True) returns once every task
\* ended; _run_scripts_parallel returns results
GatherReturn ==
  /\ pc = "gather"
  /\ \A w \in Workers : wst[w] \in {"failed", "cancelled"}
  /\ pc' = "reconcile"
  /\ UNCHANGED <<extVars, ctxVars, sources, n_workers, interp, manifest, scripts, qmd_for_script,
                 queue, unfinished, results, wst, witem, ist, irc, records, mode,
                 idx, ns, ns0, calls>>
  /\ UNCHANGED sideVars

RECURSIVE RcByQmdByArrival(_, _, _)
\* a reconciliation keyed by arrival: the k-th exit code recorded is given to
\* the k-th document of qmd_for_script
RcByQmdByArrival(res, qfs, acc) ==
  IF res = <<>> \/ qfs = <<>> THEN acc
  ELSE RcByQmdByArrival(Tail(res), Tail(qfs),
         DictSet(acc, Head(qfs)[2], Head(res)[2]))

RECURSIVE RcByQmd(_, _, _)
\* rc_by_qmd[qmd_for_script[script_path]] = res.get("returncode", 1)
RcByQmd(res, qfs, acc) ==
  IF res = <<>> THEN acc
  ELSE RcByQmd(Tail(res), qfs,
         DictSet(acc, DictGet(qfs, Head(res)[1], None), Head(res)[2]))

\* error_message = f"ipython exited with code {rc} for chapter"
ExitMessage(rc) == <<"ipython exited with code", rc, "for chapter">>

\* run_parallel, lines 524-546: the row of one block
ParallelRow(block, rc_by_qmd) ==
  LET rc == DictGet(rc_by_qmd, block.file, 0)
      ok == (rc = 0)
  IN [file |-> RelativeTo(block.file), block_index |-> block.block_index,
      mode |-> "exec-parallel", ok |-> ok,
      error_type |-> IF ok THEN None ELSE "SubprocessError",
      error_message |-> IF ok THEN NoMsg ELSE ExitMessage(rc),
      lineno |-> NoInt, col_offset |-> NoInt]

\* run_parallel, lines 515-548
Reconcile ==
  /\ pc = "reconcile"
  /\ LET rc_by_qmd == RcByQmd(results, qmd_for_script, <<>>)
         blocks == CollectBlocks(sources)
     IN records' = [k \in 1..Len(blocks) |-> ParallelRow(blocks[k], rc_by_qmd)]
  /\ pc' = "returned"
  /\ UNCHANGED <<extVars, ctxVars, sources, n_workers, interp, manifest, scripts, qmd_for_script,
                 queue, unfinished, results, wst, witem, ist, irc, mode, idx, ns,
                 ns0, calls>>
  /\ UNCHANGED sideVars

\* sequences of distinct documents, of length 1..n
RECURSIVE DocSeqs(_, _)
DocSeqs(docs, n) ==
  IF n = 0 THEN {<<>>}
  ELSE LET shorter == DocSeqs(docs, n - 1)
       IN shorter \cup {Append(s, d) : s \in shorter, d \in docs}

Distinct(s) == \A i, j \in 1..Len(s) : i # j => s[i] # s[j]

\* the values of n_workers tried: none is refused by run_parallel or the CLI
WorkerCounts == -1..MaxWorkers

Init ==
  /\ sources \in {s \in DocSeqs(ParDocs, MaxDocs) : s # <<>> /\ Distinct(s)}
  /\ n_workers \in WorkerCounts
  /\ interp \in BOOLEAN
  /\ pc = "start"
  /\ manifest = <<>>
  /\ scripts = <<>>
  /\ qmd_for_script = <<>>
  /\ queue = <<>>
  /\ unfinished = 0
  /\ results = <<>>
  /\ wst = <<>>
  /\ witem = <<>>
  /\ ist = <<>>
  /\ irc = <<>>
  /\ records = <<>>
  /\ mode = None
  /\ idx = 0
  /\ ns = {}
  /\ ns0 = {}
  /\ calls = 0
  /\ files = <<>>
  /\ iso = <<>>
  /\ ise = <<>>
  /\ iargv = <<>>
  /\ qmd_text = <<>>
  /\ found = <<>>
  /\ ctx_in = <<>>
  /\ ctx_out = <<>>
  /\ discovered = <<>>

Next ==
  \/ RunParallelEmpty
  \/ RunParallelStart
  \/ \E w \in Workers : SpawnOk(w)
  \/ \E w \in Workers : SpawnFail(w)
  \/ \E i \in Items, rc \in ExitCodes : ProcExit(i, rc, UsualOut(rc), UsualErr(rc))
  \/ \E w \in Workers : WorkerResume(w)
  \/ JoinReturn
  \/ \E w \in Workers : WorkerCancelled(w)
  \/ GatherReturn
  \/ Reconcile

Spec == Init /\ [][Next]_vars

\* ------------------------------------------------------------ run_parallel, the children's streams

\* a document whose file name holds a blank: `my ch.qmd`
DocS == [file |-> SrcPath("my ch", "qmd", TRUE),
         text |-> <<Fence("python", CodeAssignX)>>]

SideDocs == {DocB, DocS}

\* what a child may have written on a stream: nothing, or some text
OutTexts == {"", "out"}

ErrTexts == {"", "err"}

\* the interpreter is there and there is a worker; the children are let to
\* write anything to their streams
SideInit ==
  /\ sources \in {s \in DocSeqs(SideDocs, MaxDocs) : s # <<>> /\ Distinct(s)}
  /\ n_workers \in 1..MaxWorkers
  /\ interp = TRUE
  /\ pc = "start"
  /\ manifest = <<>>
  /\ scripts = <<>>
  /\ qmd_for_script = <<>>
  /\ queue = <<>>
  /\ unfinished = 0
  /\ results = <<>>
  /\ wst = <<>>
  /\ witem = <<>>
  /\ ist = <<>>
  /\ irc = <<>>
  /\ records = <<>>
  /\ mode = None
  /\ idx = 0
  /\ ns = {}
  /\ ns0 = {}
  /\ calls = 0
  /\ files = <<>>
  /\ iso = <<>>
  /\ ise = <<>>
  /\ iargv = <<>>
  /\ qmd_text = <<>>
  /\ found = <<>>
  /\ ctx_in = <<>>
  /\ ctx_out = <<>>
  /\ discovered = <<>>

SideNext ==
  \/ RunParallelStart
  \/ \E w \in Workers : SpawnOk(w)
  \/ \E i \in Items, rc \in ExitCodes, so \in OutTexts, se \in ErrTexts :
        ProcExit(i, rc, so, se)
  \/ \E w \in Workers : WorkerResume(w)
  \/ JoinReturn
  \/ \E w \in Workers : WorkerCancelled(w)
  \/ GatherReturn
  \/ Reconcile

SideSpec == SideInit /\ [][SideNext]_vars

\* ------------------------------------------------------------ run()

\* the positions of the statements of a block that compile() refuses
BadLines(code) == {i \in 1..Len(code) : code[i].comp # "ok"}

FirstBad(code) == CHOOSE i \in BadLines(code) : \A j \in BadLines(code) : i <= j

\* `ok = True` outside the try: a block that does not compile passes
CompileBlockAlwaysOk(code) ==
  [ok |-> TRUE, error_type |-> None, error_message |-> NoMsg,
   lineno |-> NoInt, col_offset |-> NoInt]

\* compile(block.code, str(block.file), "exec") with the except clauses of
\* lines 293-300: nothing is executed
CompileBlock(code) ==
  IF BadLines(code) = {}
  THEN [ok |-> TRUE, error_type |-> None, error_message |-> NoMsg,
        lineno |-> NoInt, col_offset |-> NoInt]
  ELSE IF code[FirstBad(code)].comp = "syntax"
  THEN [ok |-> FALSE, error_type |-> "SyntaxError",
        error_message |-> <<"invalid syntax">>,
        lineno |-> IF code[FirstBad(code)].col = NoInt THEN NoInt
                   ELSE SomeInt(FirstBad(code)),
        col_offset |-> code[FirstBad(code)].col]
  ELSE [ok |-> FALSE, error_type |-> "RecursionError",
        error_message |-> <<"maximum recursion depth exceeded during compilation">>,
        lineno |-> NoInt, col_offset |-> NoInt]

RECURSIVE ExecStatements(_, _)
\* the statements of a cell run one after the other against the user
\* namespace; the first one that reads an unbound name raises NameError and
\* ends the cell, the bindings made before it stay
ExecStatements(code, names) ==
  IF code = <<>> THEN [names |-> names, missing |-> {}]
  ELSE IF ~(Head(code).reads \subseteq names)
       THEN [names |-> names, missing |-> Head(code).reads \ names]
       ELSE ExecStatements(Tail(code),
              IF Head(code).binds = "" THEN names ELSE names \cup {Head(code).binds})

\* shell.run_cell(block.code, store_history=False) on a cell that compiles,
\* and lines 305-313 on its result
ExecBlock(code, names) ==
  LET r == ExecStatements(code, names)
  IN IF r.missing = {}
     THEN [ok |-> TRUE, error_type |-> None, error_message |-> NoMsg,
           lineno |-> NoInt, col_offset |-> NoInt, names |-> r.names]
     ELSE [ok |-> FALSE, error_type |-> "NameError",
           error_message |-> <<"name", CHOOSE n \in r.missing : TRUE, "is not defined">>,
           lineno |-> NoInt, col_offset |-> NoInt, names |-> r.names]

\* the row appended at lines 318-330
RunRow(block, m, r) ==
  [file |-> RelativeTo(block.file), block_index |-> block.block_index,
   mode |-> m, ok |-> r.ok, error_type |-> r.error_type,
   error_message |-> r.error_message, lineno |-> r.lineno,
   col_offset |-> r.col_offset]

Blocks == CollectBlocks(sources)

\* run(mode), lines 268-271: a mode other than syntax or exec raises ValueError
\* (a process makes one run_parallel call, or up to MaxCalls run calls)
RunBadMode ==
  /\ pc \in {"start", "returned"}
  /\ mode # "exec-parallel"
  /\ calls < MaxCalls
  /\ pc' = "raised"
  /\ mode' = "bogus"
  /\ calls' = calls + 1
  /\ UNCHANGED <<extVars, ctxVars, sources, n_workers, interp, records, idx, ns, ns0>>
  /\ UNCHANGED parVars

\* a run that makes a session of its own: nothing is bound when it starts
RunStartOwnSession(m) ==
  /\ pc \in {"start", "returned"}
  /\ mode # "exec-parallel"
  /\ calls < MaxCalls
  /\ pc' = "loop"
  /\ mode' = m
  /\ calls' = calls + 1
  /\ idx' = 0
  /\ records' = <<>>
  /\ ns' = {}
  /\ ns0' = {}
  /\ UNCHANGED <<extVars, ctxVars, sources, n_workers, interp>>
  /\ UNCHANGED parVars

\* run(mode), lines 268-279: the blocks are collected; exec mode takes the
\* process-wide shell, InteractiveShell.instance()
RunStart(m) ==
  /\ pc \in {"start", "returned"}
  /\ mode # "exec-parallel"
  /\ calls < MaxCalls
  /\ pc' = "loop"
  /\ mode' = m
  /\ calls' = calls + 1
  /\ idx' = 0
  /\ records' = <<>>
  /\ ns0' = ns
  /\ UNCHANGED <<extVars, ctxVars, sources, n_workers, interp, ns>>
  /\ UNCHANGED parVars

\* a loop that skips (`continue`) the blocks that do not compile
SyntaxBlockSkipFailed ==
  /\ pc = "loop"
  /\ mode = "syntax"
  /\ idx < Len(Blocks)
  /\ records' = IF BadLines(Blocks[idx + 1].code) = {}
                THEN Append(records, RunRow(Blocks[idx + 1], mode,
                                            CompileBlock(Blocks[idx + 1].code)))
                ELSE records
  /\ idx' = idx + 1
  /\ UNCHANGED <<extVars, ctxVars, sources, n_workers, interp, pc, mode, ns, ns0, calls>>
  /\ UNCHANGED parVars

\* one pass of the loop of line 281 in syntax mode
SyntaxBlock ==
  /\ pc = "loop"
  /\ mode = "syntax"
  /\ idx < Len(Blocks)
  /\ records' = Append(records, RunRow(Blocks[idx + 1], mode, CompileBlock(Blocks[idx + 1].code)))
  /\ idx' = idx + 1
  /\ UNCHANGED <<extVars, ctxVars, sources, n_workers, interp, pc, mode, ns, ns0, calls>>
  /\ UNCHANGED parVars

\* a shell made anew for every block: no binding outlives its block
ExecBlockRunFreshShell ==
  /\ pc = "loop"
  /\ mode = "exec"
  /\ idx < Len(Blocks)
  /\ BadLines(Blocks[idx + 1].code) = {}
  /\ LET r == ExecBlock(Blocks[idx + 1].code, {})
     IN /\ records' = Append(records, RunRow(Blocks[idx + 1], mode, r))
        /\ ns' = r.names
  /\ idx' = idx + 1
  /\ UNCHANGED <<extVars, ctxVars, sources, n_workers, interp, pc, mode, ns0, calls>>
  /\ UNCHANGED parVars

\* a loop that stops at the first block whose evaluation raises
ExecBlockRunAbort ==
  /\ pc = "loop"
  /\ mode = "exec"
  /\ idx < Len(Blocks)
  /\ BadLines(Blocks[idx + 1].code) = {}
  /\ LET r == ExecBlock(Blocks[idx + 1].code, ns)
     IN /\ records' = Append(records, RunRow(Blocks[idx + 1], mode, r))
        /\ ns' = r.names
        /\ pc' = IF r.ok THEN pc ELSE "returned"
  /\ idx' = idx + 1
  /\ UNCHANGED <<extVars, ctxVars, sources, n_workers, interp, mode, ns0, calls>>
  /\ UNCHANGED parVars

\* one pass of the loop in exec mode, the cell compiles: it is run
ExecBlockRun ==
  /\ pc = "loop"
  /\ mode = "exec"
  /\ idx < Len(Blocks)
  /\ BadLines(Blocks[idx + 1].code) = {}
  /\ LET r == ExecBlock(Blocks[idx + 1].code, ns)
     IN /\ records' = Append(records, RunRow(Blocks[idx + 1], mode, r))
        /\ ns' = r.names
  /\ idx' = idx + 1
  /\ UNCHANGED <<extVars, ctxVars, sources, n_workers, interp, pc, mode, ns0, calls>>
  /\ UNCHANGED parVars

\* one pass of the loop in exec mode, the cell does not compile: run_cell
\* returns with error_before_exec set and error_in_exec None, so line 306
\* leaves error_type None
ExecBlockBeforeExec ==
  /\ pc = "loop"
  /\ mode = "exec"
  /\ idx < Len(Blocks)
  /\ BadLines(Blocks[idx + 1].code) # {}
  /\ records' = Append(records, RunRow(Blocks[idx + 1], mode,
        [ok |-> FALSE, error_type |-> None, error_message |-> NoMsg,
         lineno |-> NoInt, col_offset |-> NoInt]))
  /\ idx' = idx + 1
  /\ UNCHANGED <<extVars, ctxVars, sources, n_workers, interp, pc, mode, ns, ns0, calls>>
  /\ UNCHANGED parVars

\* one pass of the loop in exec mode, compiling the cell raises something
\* IPython's parse step does not catch: the exception comes back either as
\* result.error_in_exec (lines 306-313) or out of run_cell (lines 314-316)
ExecBlockRaises ==
  /\ pc = "loop"
  /\ mode = "exec"
  /\ idx < Len(Blocks)
  /\ BadLines(Blocks[idx + 1].code) # {}
  /\ Blocks[idx + 1].code[FirstBad(Blocks[idx + 1].code)].comp = "other"
  /\ records' = Append(records, RunRow(Blocks[idx + 1], mode,
        [ok |-> FALSE, error_type |-> "RecursionError",
         error_message |-> <<"maximum recursion depth exceeded during compilation">>,
         lineno |-> NoInt, col_offset |-> NoInt]))
  /\ idx' = idx + 1
  /\ UNCHANGED <<extVars, ctxVars, sources, n_workers, interp, pc, mode, ns, ns0, calls>>
  /\ UNCHANGED parVars

\* lines 332-347: the table is returned
RunReturn ==
  /\ pc = "loop"
  /\ idx = Len(Blocks)
  /\ pc' = "returned"
  /\ UNCHANGED <<extVars, ctxVars, sources, n_workers, interp, records, mode, idx, ns, ns0, calls>>
  /\ UNCHANGED parVars

\* the python fences a single-process run is tried on
RunFences == {Fence("python", c) : c \in Codes}

RECURSIVE FenceSeqs(_)
FenceSeqs(n) ==
  IF n = 0 THEN {<<>>}
  ELSE LET shorter == FenceSeqs(n - 1)
       IN shorter \cup {Append(s, f) : s \in shorter, f \in RunFences}

\* two documents: the first holds the first fence, the second starts with a
\* fence of another language
RunInit ==
  /\ \E fs \in FenceSeqs(MaxBlocks + 1) : \E k \in {IF fs = <<>> THEN 0 ELSE 1} :
        sources = <<[file |-> SrcPath("a", "qmd", TRUE), text |-> SubSeq(fs, 1, k)],
                    [file |-> SrcPath("b", "qmd", TRUE),
                     text |-> <<Fence("bash", CodeAssignX)>> \o SubSeq(fs, k + 1, Len(fs))]>>
  /\ n_workers = 0
  /\ interp = TRUE
  /\ pc = "start"
  /\ manifest = <<>>
  /\ scripts = <<>>
  /\ qmd_for_script = <<>>
  /\ queue = <<>>
  /\ unfinished = 0
  /\ results = <<>>
  /\ wst = <<>>
  /\ witem = <<>>
  /\ ist = <<>>
  /\ irc = <<>>
  /\ records = <<>>
  /\ mode = None
  /\ idx = 0
  /\ ns = {}
  /\ ns0 = {}
  /\ calls = 0
  /\ files = <<>>
  /\ iso = <<>>
  /\ ise = <<>>
  /\ iargv = <<>>
  /\ qmd_text = <<>>
  /\ found = <<>>
  /\ ctx_in = <<>>
  /\ ctx_out = <<>>
  /\ discovered = <<>>

RunNext ==
  \/ RunBadMode
  \/ \E m \in {"syntax", "exec"} : RunStart(m)
  \/ SyntaxBlock
  \/ ExecBlockRun
  \/ ExecBlockBeforeExec
  \/ ExecBlockRaises
  \/ RunReturn

RunSpec == RunInit /\ [][RunNext]_vars

\* ------------------------------------------------------------ calls of extract_code_blocks

\* the engine's variables, untouched by the calls of the module-level functions
engineVars == <<sources, n_workers, interp, records, parVars, runVars>>

\* no test object has been made
EngineIdle ==
  /\ sources = <<>>
  /\ n_workers = 0
  /\ interp = TRUE
  /\ manifest = <<>>
  /\ scripts = <<>>
  /\ qmd_for_script = <<>>
  /\ queue = <<>>
  /\ unfinished = 0
  /\ results = <<>>
  /\ wst = <<>>
  /\ witem = <<>>
  /\ ist = <<>>
  /\ irc = <<>>
  /\ records = <<>>
  /\ mode = None
  /\ idx = 0
  /\ ns = {}
  /\ ns0 = {}
  /\ calls = 0
  /\ files = <<>>
  /\ iso = <<>>
  /\ ise = <<>>
  /\ iargv = <<>>

\* The pieces the document texts are put together from.
\* a paragraph
ProseChunk == <<ProseLine>>

\* a python block
PyChunk == <<OpenLine("python"), CodeLine(AssignX), CloseLine>>

\* a python block with a label and a caption
PyAnnotated ==
  <<OpenLine("python"), LabelLine, CapLine, CodeLine(PrintX), CloseLine>>

\* a block tagged Python, with empty lines around its code
PyPadded ==
  <<OpenLine("Python"), BlankLine, CodeLine(AssignX), BlankLine, CloseLine>>

\* a block of another language
BashChunk == <<OpenLine("bash"), CodeLine(AssignX), CloseLine>>

\* an opening fence that is never closed
Unclosed == <<OpenLine("python"), CodeLine(AssignX)>>

\* a python block without code
EmptyPy == <<OpenLine("python"), CloseLine>>

Chunks == {ProseChunk, PyChunk, PyAnnotated, PyPadded, BashChunk, Unclosed, EmptyPy}

RECURSIVE ChunkSeqs(_)
ChunkSeqs(n) ==
  IF n = 0 THEN {<<>>}
  ELSE LET shorter == ChunkSeqs(n - 1)
       IN shorter \cup {Append(s, c) : s \in shorter, c \in Chunks}

\* the language filters a call is made with
LangFilters == {"python", "Python", None}

\* the `file` argument of the calls
TextFile == SrcPath("a", "qmd", TRUE)

ExtInit ==
  /\ qmd_text \in {Flatten(cs) : cs \in ChunkSeqs(MaxBlocks + 1)}
  /\ found = <<>>
  /\ pc = "blocks"
  /\ ctx_in = <<>>
  /\ ctx_out = <<>>
  /\ discovered = <<>>
  /\ EngineIdle

\* an extraction whose block counter is kept from one call to the next
ExtractCallCounting(lang) ==
  /\ pc = "blocks"
  /\ Len(found) < MaxCalls
  /\ LET blocks == ExtractCodeBlocks(qmd_text, TextFile, lang)
         seen == Len(found) * Len(BlockMatches(qmd_text, 1))
     IN found' = Append(found,
                   [lang |-> lang,
                    blocks |-> [h \in 1..Len(blocks) |->
                                  [blocks[h] EXCEPT !.block_index = @ + seen]]])
  /\ UNCHANGED <<pc, qmd_text, ctxVars, engineVars>>

\* blocks = extract_code_blocks(text, file, lang)
ExtractCall(lang) ==
  /\ pc = "blocks"
  /\ Len(found) < MaxCalls
  /\ found' = Append(found, [lang |-> lang,
                             blocks |-> ExtractCodeBlocks(qmd_text, TextFile, lang)])
  /\ UNCHANGED <<pc, qmd_text, ctxVars, engineVars>>

ExtNext == \E lang \in LangFilters : ExtractCall(lang)

ExtSpec == ExtInit /\ [][ExtNext]_vars

\* ------------------------------------------------------------ utils.py: project context

\* A path as the sequence of its components, with whether its spelling is
\* the one Path.resolve() returns.
CtxPath(parts, canon) == [parts |-> parts, canon |-> canon]

\* None where a path is expected
NoPath == [parts |-> <<>>, canon |-> TRUE]

\* p / name
Child(p, name) == [p EXCEPT !.parts = Append(@, name)]

\* p.parent
Parent(p) == [p EXCEPT !.parts = SubSeq(@, 1, Len(@) - 1)]

\* p.name
NameOf(p) == p.parts[Len(p.parts)]

\* the last components the input paths are given
InputNames == {"proj", "book.qmd", "DOC.QMD", "_quarto.yml", "_quarto.yaml", "notes.txt"}

\* p.suffix for those names
SuffixOf(name) ==
  CASE name = "book.qmd" -> ".qmd"
    [] name = "DOC.QMD" -> ".QMD"
    [] name = "_quarto.yml" -> ".yml"
    [] name = "_quarto.yaml" -> ".yaml"
    [] name = "notes.txt" -> ".txt"
    [] OTHER -> ""

\* str.lower() on those suffixes
LowerSuffix(sfx) == IF sfx = ".QMD" THEN ".qmd" ELSE sfx

\* a version of the directory case that fills in the default pattern when no
\* project file, pattern or explicit file is given
ResolveQuartoContextDefaultGlob(input_path, explicit_files, file_patterns, is_dir, yml, yaml) ==
  LET p == Resolve(input_path)
  IN IF is_dir
     THEN [base_dir |-> p,
           project_yaml |-> IF yml THEN Child(p, "_quarto.yml")
                            ELSE IF yaml THEN Child(p, "_quarto.yaml") ELSE NoPath,
           patterns |-> IF ~yml /\ ~yaml /\ file_patterns = <<>> /\ explicit_files = <<>>
                        THEN <<"*.qmd">> ELSE file_patterns,
           explicit_files |-> explicit_files]
     ELSE IF LowerSuffix(SuffixOf(NameOf(p))) = ".qmd"
     THEN [base_dir |-> Parent(p), project_yaml |-> NoPath, patterns |-> <<>>,
           explicit_files |-> IF explicit_files = <<>> THEN <<p>> ELSE explicit_files]
     ELSE IF NameOf(p) \in {"_quarto.yml", "_quarto.yaml"}
     THEN [base_dir |-> Parent(p), project_yaml |-> p, patterns |-> file_patterns,
           explicit_files |-> explicit_files]
     ELSE [base_dir |-> Parent(p), project_yaml |-> NoPath, patterns |-> file_patterns,
           explicit_files |-> explicit_files]

\* a version whose single-file case passes the patterns through
ResolveQuartoContextKeepPatterns(input_path, explicit_files, file_patterns, is_dir, yml, yaml) ==
  LET p == Resolve(input_path)
  IN IF is_dir
     THEN [base_dir |-> p,
           project_yaml |-> IF yml THEN Child(p, "_quarto.yml")
                            ELSE IF yaml THEN Child(p, "_quarto.yaml") ELSE NoPath,
           patterns |-> file_patterns,
           explicit_files |-> explicit_files]
     ELSE IF LowerSuffix(SuffixOf(NameOf(p))) = ".qmd"
     THEN [base_dir |-> Parent(p), project_yaml |-> NoPath, patterns |-> file_patterns,
           explicit_files |-> IF explicit_files = <<>> THEN <<p>> ELSE explicit_files]
     ELSE IF NameOf(p) \in {"_quarto.yml", "_quarto.yaml"}
     THEN [base_dir |-> Parent(p), project_yaml |-> p, patterns |-> file_patterns,
           explicit_files |-> explicit_files]
     ELSE [base_dir |-> Parent(p), project_yaml |-> NoPath, patterns |-> file_patterns,
           explicit_files |-> explicit_files]

\* resolve_quarto_context(input_path, explicit_files, file_patterns), given
\* whether the resolved path is a directory and which project files it holds
ResolveQuartoContext(input_path, explicit_files, file_patterns, is_dir, yml, yaml) ==
  LET p == Resolve(input_path)
  IN IF is_dir
     THEN [base_dir |-> p,
           project_yaml |-> IF yml THEN Child(p, "_quarto.yml")
                            ELSE IF yaml THEN Child(p, "_quarto.yaml") ELSE NoPath,
           patterns |-> file_patterns,
           explicit_files |-> explicit_files]
     ELSE IF LowerSuffix(SuffixOf(NameOf(p))) = ".qmd"
     THEN [base_dir |-> Parent(p), project_yaml |-> NoPath, patterns |-> <<>>,
           explicit_files |-> IF explicit_files = <<>> THEN <<p>> ELSE explicit_files]
     ELSE IF NameOf(p) \in {"_quarto.yml", "_quarto.yaml"}
     THEN [base_dir |-> Parent(p), project_yaml |-> p, patterns |-> file_patterns,
           explicit_files |-> explicit_files]
     ELSE [base_dir |-> Parent(p), project_yaml |-> NoPath, patterns |-> file_patterns,
           explicit_files |-> explicit_files]

\* sorted(base_dir.glob(pattern)) over a directory holding the files qmds
Glob(base_dir, pattern, qmds) ==
  IF pattern = "*.qmd" THEN [k \in 1..Len(qmds) |-> Child(base_dir, qmds[k])] ELSE <<>>

RECURSIVE GlobAll(_, _, _)
\* lines 48-53: the matches of the patterns, pattern by pattern
GlobAll(base_dir, patterns, qmds) ==
  IF patterns = <<>> THEN <<>>
  ELSE Glob(base_dir, Head(patterns), qmds) \o GlobAll(base_dir, Tail(patterns), qmds)

\* what discover_quarto_sources gives back: the sources, or the ValueError
Sources(s) == [ok |-> TRUE, sources |-> s, error |-> ""]

Raises(msg) == [ok |-> FALSE, sources |-> <<>>, error |-> msg]

\* discover_quarto_sources(base_dir, project_yaml, file_patterns,
\* explicit_files) over a base directory dir: the project files it holds
\* (yml, yaml), its .qmd files in sorted order (qmds) and what the project
\* file says (yaml_text)
DiscoverQuartoSources(base_dir, project_yaml, file_patterns, explicit_files, dir) ==
  IF explicit_files # <<>> THEN Sources(explicit_files)
  ELSE IF file_patterns # <<>>
  THEN IF GlobAll(base_dir, file_patterns, dir.qmds) = <<>>
       THEN Raises("No files matched patterns")
       ELSE Sources(GlobAll(base_dir, file_patterns, dir.qmds))
  ELSE IF project_yaml = NoPath /\ ~dir.yml /\ ~dir.yaml
  THEN Raises("Cannot find _quarto.yml or _quarto.yaml and no explicit files or patterns provided.")
  ELSE IF ~dir.yaml_text.block
  THEN Raises("Cannot find '  chapters:' block in project YAML.")
  ELSE IF dir.yaml_text.chapters = <<>>
  THEN Raises("No chapter files discovered from project YAML.")
  ELSE Sources([k \in 1..Len(dir.yaml_text.chapters) |->
                  Child(base_dir, dir.yaml_text.chapters[k])])

\* the input paths, all spelled under one working directory
InputPath(name, canon) == CtxPath(<<"work", name>>, canon)

\* explicit_files as passed
ExplicitChoices ==
  {<<>>,
   <<CtxPath(<<"work", "posts", "other.qmd">>, TRUE)>>,
   <<CtxPath(<<"work", "posts", "q1.qmd">>, TRUE), CtxPath(<<"work", "posts", "q2.qmd">>, TRUE)>>}

\* file_patterns as passed
PatternChoices == {<<>>, <<"*.qmd">>, <<"posts/*.qmd">>}

\* the .qmd files of the base directory
QmdChoices == {<<>>, <<"a.qmd">>, <<"a.qmd", "b.qmd">>}

\* the project file: whether it has a `  chapters:` block, and the chapters
YamlChoices ==
  {[block |-> FALSE, chapters |-> <<>>], [block |-> TRUE, chapters |-> <<>>],
   [block |-> TRUE, chapters |-> <<"a.qmd">>],
   [block |-> TRUE, chapters |-> <<"b.qmd", "a.qmd">>]}

\* an input path that names a project file which is not a directory is that
\* project file of its parent
CtxInputs ==
  {c \in [input_path : {InputPath(n, k) : n \in InputNames, k \in BOOLEAN},
          is_dir : BOOLEAN, yml : BOOLEAN, yaml : BOOLEAN,
          qmds : QmdChoices, yaml_text : YamlChoices,
          explicit_files : ExplicitChoices, file_patterns : PatternChoices] :
     /\ (~c.is_dir /\ NameOf(c.input_path) = "_quarto.yml") => c.yml
     /\ (~c.is_dir /\ NameOf(c.input_path) = "_quarto.yaml") => c.yaml}

CtxInit ==
  /\ ctx_in \in CtxInputs
  /\ ctx_out = <<>>
  /\ discovered = <<>>
  /\ pc = "ctx"
  /\ qmd_text = <<>>
  /\ found = <<>>
  /\ EngineIdle

\* base_dir, project_yaml, patterns, explicit_files = resolve_quarto_context(...)
ResolveCall ==
  /\ pc = "ctx"
  /\ ctx_out' = ResolveQuartoContext(ctx_in.input_path, ctx_in.explicit_files,
                                     ctx_in.file_patterns, ctx_in.is_dir,
                                     ctx_in.yml, ctx_in.yaml)
  /\ pc' = "resolved"
  /\ UNCHANGED <<ctx_in, discovered, extVars, engineVars>>

\* discover_quarto_sources on the resolved context (_discover_sources)
DiscoverCall ==
  /\ pc = "resolved"
  /\ discovered' = DiscoverQuartoSources(ctx_out.base_dir, ctx_out.project_yaml,
                                         ctx_out.patterns, ctx_out.explicit_files,
                                         ctx_in)
  /\ pc' = "discovered"
  /\ UNCHANGED <<ctx_in, ctx_out, extVars, engineVars>>

CtxNext == ResolveCall \/ DiscoverCall

CtxSpec == CtxInit /\ [][CtxNext]_vars

\* ------------------------------------------------------------ properties of run_parallel

\* the queue items whose child process has been asked for and has not ended
InFlight == {i \in DOMAIN ist : ist[i] \in {"spawning", "running"}}

\* C1: with n_workers = N >= 1, at most N child processes are spawned and not
\* yet terminated, whatever the number of scripts; the items not yet taken by
\* a worker are exactly those waiting in the queue.
C1_ConcurrencyCap ==
  n_workers >= 1 =>
    /\ Cardinality(InFlight) <= n_workers
    /\ \A i \in DOMAIN ist : (ist[i] = "queued") <=> (i \in Range(queue))

\* the cap is reached while a script still waits in the queue
C1_Witness ==
  /\ n_workers = 2
  /\ Cardinality({i \in DOMAIN ist : ist[i] = "running"}) = n_workers
  /\ queue # <<>>

\* C2: with N >= 1 workers the engine never deadlocks: while the coordinator
\* waits in queue.join() with items not yet marked done, some worker task is
\* still there to process them.
C2_NeverDeadlocks ==
  (n_workers >= 1 /\ pc = "join" /\ unfinished > 0) =>
    \E w \in Workers : wst[w] \in {"spawn", "communicate"}

\* the item of a document's chapter script (its row of the manifest)
ItemsOf(file) == {i \in Items : scripts[i] = ScriptPath(file)}

\* C3: after run_parallel every block of a document whose chapter script
\* exited non-zero has ok=False with the generic error naming that exit code,
\* and every block of a document whose script exited with 0 has ok=True.
C3_BlocksFollowChapterExit ==
  (pc = "returned" /\ mode = "exec-parallel") =>
    \A k \in 1..Len(records) : \A i \in ItemsOf(Blocks[k].file) :
      ist[i] = "done" =>
        /\ records[k].ok = (irc[i] = 0)
        /\ irc[i] # 0 => /\ records[k].error_type = "SubprocessError"
                         /\ records[k].error_message = ExitMessage(irc[i])

\* C4: without a resolvable interpreter the parallel run fails fatally: it
\* never returns a result table and never hangs.
C4_MissingInterpreterIsFatal ==
  (~interp /\ n_workers >= 1 /\ manifest # <<>>) =>
    /\ pc # "returned"
    /\ (pc = "join" /\ unfinished > 0) =>
          \E w \in Workers : wst[w] \in {"spawn", "communicate"}

\* C5: reconciliation starts only after every enqueued script is completed
\* with its exit code recorded in the result map and every worker task has
\* stopped.
C5_ReconcileAfterAllRecorded ==
  (pc \in {"reconcile", "returned"} /\ manifest # <<>>) =>
    /\ \A i \in Items : /\ ist[i] = "done"
                        /\ scripts[i] \in DictKeys(results)
    /\ \A w \in Workers : wst[w] \in {"cancelled", "failed"}

\* C6: one script's non-zero exit never affects its siblings: every other
\* item is run and has its own exit code recorded, and the rows of another
\* document that report a chapter outcome report that document's own.
C6_FailureIsolation ==
  (pc = "returned" /\ manifest # <<>>) =>
    \A i \in Items : (ist[i] = "done" /\ irc[i] # 0) =>
      \A j \in Items \ {i} :
        /\ ist[j] = "done"
        /\ DictGet(results, scripts[j], None) = irc[j]
        /\ \A k \in 1..Len(records) :
             (/\ Blocks[k].file \in DictKeys(RcByQmd(results, qmd_for_script, <<>>))
              /\ ScriptPath(Blocks[k].file) = scripts[j]
              /\ \A h \in Items : scripts[h] = scripts[j] => h = j)
             => records[k].ok = (irc[j] = 0)

\* ------------------------------------------------------------ properties of run()

Compiles(code) == \A i \in 1..Len(code) : code[i].comp = "ok"

AllReads(code) == UNION {code[i].reads : i \in 1..Len(code)}

AllBinds(code) == {code[i].binds : i \in 1..Len(code)} \ {""}

\* the names a block that compiles binds for sure: those of its leading
\* statements that read no name
SureBinds(code) ==
  {code[i].binds : i \in {h \in 1..Len(code) : \A g \in 1..h : code[g].reads = {}}} \ {""}

\* the rows made so far are those of the first idx blocks, in extraction order
RowsFollowBlocks ==
  /\ Len(records) = idx
  /\ \A k \in 1..idx : /\ records[k].file = RelativeTo(Blocks[k].file)
                       /\ records[k].block_index = Blocks[k].block_index

\* C7: in exec mode the blocks are evaluated one at a time in extraction
\* order against one session, and what block i binds is visible to block
\* i+1: a block that compiles and reads only names its successful predecessor
\* bound succeeds (`x = 1` then `print(x)`: both ok).
C7_ExecInOrderSharedSession ==
  (mode = "exec" /\ pc \in {"loop", "returned"}) =>
    /\ RowsFollowBlocks
    /\ \A k \in 1..idx :
         LET code == Blocks[k].code
             before == IF k = 1 THEN {} ELSE
                       IF records[k - 1].ok THEN AllBinds(Blocks[k - 1].code) ELSE {}
         IN (Compiles(code) /\ AllReads(code) \subseteq before \cup SureBinds(code))
              => records[k].ok

\* `x = 1` then `print(x)`, evaluated in that order: both rows ok
C7_Witness ==
  /\ mode = "exec"
  /\ pc = "returned"
  /\ Len(records) >= 2
  /\ Blocks[1].code = CodeAssignX
  /\ Blocks[2].code = CodePrintX
  /\ "x" \notin ns0
  /\ records[1].ok
  /\ records[2].ok

\* the names bound by nothing in the session: not when the call started, and
\* by no statement of the blocks up to block k
NeverBound(k) ==
  {n \in {"x", "y", "z"} :
     /\ n \notin ns0
     /\ \A h \in 1..k : n \notin AllBinds(Blocks[h].code)}

AllInit == Init \/ RunInit

AllNext == Next \/ RunNext

AllSpec == AllInit /\ [][AllNext]_vars

\* the (document, index) pairs of the python fences of the sources, document
\* by document in source order and in fence order within a document
ExpectedKeys ==
  LET Py(d) == {i \in 1..Len(sources[d].text) :
                  sources[d].text[i].lang \in {"python", "Python"}}
      Nth(d, k) == CHOOSE i \in Py(d) : Cardinality({j \in Py(d) : j <= i}) = k
      OfDoc(d) == [k \in 1..Cardinality(Py(d)) |->
                     <<RelativeTo(sources[d].file), Nth(d, k)>>]
  IN Flatten([d \in 1..Len(sources) |-> OfDoc(d)])

\* C10: run() in either mode and run_parallel() return exactly one row per
\* extracted block, in extraction order, whichever blocks or chapters fail.
C10_OneRowPerBlockInOrder ==
  pc = "returned" =>
    /\ Len(records) = Len(ExpectedKeys)
    /\ \A k \in 1..Len(records) :
         <<records[k].file, records[k].block_index>> = ExpectedKeys[k]

\* a returned table of three rows or more that holds a failed row before an
\* ok one
C10_Witness ==
  /\ pc = "returned"
  /\ Len(records) >= 3
  /\ records[2].block_index = 3
  /\ \E k \in 1..Len(records) : \E h \in (k + 1)..Len(records) :
        ~records[k].ok /\ records[h].ok

\* ------------------------------------------------------------ properties of extract_code_blocks

C12_IndexCountsEveryFence ==
  pc = "blocks" =>
    \A i \in 1..Len(found) :
      LET bs == found[i].blocks
      IN /\ \A h \in 1..(Len(bs) - 1) : bs[h].block_index < bs[h + 1].block_index
         /\ found[i].lang = None => \A h \in 1..Len(bs) : bs[h].block_index = h
         /\ \A j \in 1..Len(found) :
              (found[i].lang # None /\ found[j].lang = None) =>
                bs = SelectSeq(found[j].blocks,
                               LAMBDA b : Lower(b.lang) = Lower(found[i].lang))

\* python, bash, python filtered to python: indices 1 and 3
C12_Witness ==
  /\ pc = "blocks"
  /\ qmd_text = PyChunk \o BashChunk \o PyChunk
  /\ \E i \in 1..Len(found) :
        /\ found[i].lang = "python"
        /\ Len(found[i].blocks) = 2
        /\ found[i].blocks[1].block_index = 1
        /\ found[i].blocks[2].block_index = 3

\* ------------------------------------------------------------ properties of the files written

\* the positions of the python fences of source document d
PyFences(d) ==
  {i \in 1..Len(sources[d].text) : sources[d].text[i].lang \in {"python", "Python"}}

\* the block indices on the header lines of a script, in order
HeaderIndices(content) ==
  LET hs == SelectSeq(content, LAMBDA e : e.kind = "header")
  IN [h \in 1..Len(hs) |-> hs[h].block_index]

\* the code sections of a script, in order
CodeSections(content) ==
  LET cs == SelectSeq(content, LAMBDA e : e.kind = "code")
  IN [h \in 1..Len(cs) |-> cs[h].code]

\* the script files under output_dir
ScriptFiles == {p \in DictKeys(files) : p.ext = "py"}

\* C13: once extract() has run, every document with k >= 1 python blocks has
\* one script of its own holding exactly its k header-marked sections in
\* block order, and one manifest row with blocks = k; a document without
\* python blocks has no script and no manifest row.
C13_OneScriptPerDocument ==
  (pc \in {"join", "gather", "reconcile", "returned"} /\ manifest # <<>>) =>
    /\ Cardinality(ScriptFiles) = Cardinality({d \in 1..Len(sources) : PyFences(d) # {}})
    /\ \A d \in 1..Len(sources) :
         LET k == Cardinality(PyFences(d))
             rows == {r \in 1..Len(manifest) : manifest[r].file = RelativeTo(sources[d].file)}
             script == DictGet(files, ScriptPath(sources[d].file), <<>>)
         IN IF k = 0
            THEN /\ rows = {}
                 /\ ScriptPath(sources[d].file) \notin DictKeys(files)
            ELSE /\ Cardinality(rows) = 1
                 /\ \A r \in rows : manifest[r].blocks = k
                 /\ Len(HeaderIndices(script)) = k
                 /\ \A h \in 1..Len(HeaderIndices(script)) :
                      /\ HeaderIndices(script)[h] \in PyFences(d)
                      /\ Cardinality({i \in PyFences(d) : i <= HeaderIndices(script)[h]}) = h
                      /\ CodeSections(script)[h] = sources[d].text[HeaderIndices(script)[h]].code

\* the content of the sibling of a script with suffix ext, None if there is
\* no such file
Sibling(fs, script, ext) == DictGet(fs, WithSuffix(script, ext), None)

\* the step in which a worker is done with item i: proc.communicate() has
\* returned and the worker runs on to task_done()
Finishes(i) == pc = "join" /\ ist[i] = "exited" /\ ist'[i] = "done"

\* C14 as stated: whenever a worker finishes a script, the captured standard
\* output and standard error are in <script>.output and <script>.stderr by
\* the time the exit code is recorded and the item is marked done.
C14_BothStreamsPersisted ==
  [][\A i \in 1..Len(scripts) :
       Finishes(i) =>
         /\ Sibling(files', scripts[i], "output") = iso[i]
         /\ Sibling(files', scripts[i], "stderr") = ise[i]
         /\ DictGet(results', scripts[i], None) = irc[i]
         /\ unfinished' = unfinished - 1]_vars

\* C14, amended: whenever a worker finishes a script, each captured stream
\* that is not empty is in its sibling file (.output, .stderr) by the time
\* the exit code is recorded and the item is marked done; for an empty
\* stream no file is written or touched.
C14_NonEmptyStreamsPersisted ==
  [][\A i \in 1..Len(scripts) :
       Finishes(i) =>
         /\ Sibling(files', scripts[i], "output")
              = (IF iso[i] # "" THEN iso[i] ELSE Sibling(files, scripts[i], "output"))
         /\ Sibling(files', scripts[i], "stderr")
              = (IF ise[i] # "" THEN ise[i] ELSE Sibling(files, scripts[i], "stderr"))
         /\ DictGet(results', scripts[i], None) = irc[i]
         /\ unfinished' = unfinished - 1]_vars

\* a finished script that printed but wrote nothing to standard error: it
\* has its .output file and no .stderr file
C14_Witness ==
  /\ pc = "join"
  /\ \E i \in 1..Len(scripts) :
        /\ ist[i] = "done"
        /\ iso[i] = "out"
        /\ ise[i] = ""
        /\ Sibling(files, scripts[i], "output") = "out"
        /\ Sibling(files, scripts[i], "stderr") = None
        /\ DictGet(results, scripts[i], None) = irc[i]

\* C15 as stated: a script that ends with a non-zero code gets an .error
\* file holding its standard error, or its standard output if standard error
\* was empty; no .error file is written for a script that ends with code 0.
C15_ErrorFileForEveryFailure ==
  [][\A i \in 1..Len(scripts) :
       Finishes(i) =>
         Sibling(files', scripts[i], "error")
           = (IF irc[i] = 0 THEN Sibling(files, scripts[i], "error")
              ELSE IF ise[i] # "" THEN ise[i] ELSE iso[i])]_vars

\* C15, amended: a script that ends with a non-zero code and wrote to at
\* least one stream gets an .error file holding its standard error, or its
\* standard output if standard error was empty; no .error file is written
\* for a script that ends with code 0, nor for one that wrote nothing.
C15_ErrorFileForFailureWithOutput ==
  [][\A i \in 1..Len(scripts) :
       Finishes(i) =>
         Sibling(files', scripts[i], "error")
           = (IF irc[i] = 0 \/ (ise[i] = "" /\ iso[i] = "")
              THEN Sibling(files, scripts[i], "error")
              ELSE IF ise[i] # "" THEN ise[i] ELSE iso[i])]_vars

\* a script that ended with code 1 and an empty standard error: its .error
\* file holds what it printed
C15_Witness ==
  /\ pc = "join"
  /\ \E i \in 1..Len(scripts) :
        /\ ist[i] = "done"
        /\ irc[i] = 1
        /\ ise[i] = ""
        /\ iso[i] = "out"
        /\ Sibling(files, scripts[i], "error") = "out"

\* str(script) as one argument
WholePath(p) == <<p.root, "/", p.stem, ".", p.ext>>

\* C16: every child is started as the interpreter executable with the script
\* path as its only argument, whatever the path (blanks included).
C16_ScriptPathIsTheOnlyArgument ==
  \A i \in 1..Len(iargv) :
    iargv[i] # <<>> => iargv[i] = << <<"ipython">>, WholePath(scripts[i]) >>

\* ------------------------------------------------------------ properties of the project context

\* the resolved input path
Resolved == [ctx_in.input_path EXCEPT !.canon = TRUE]

\* what the single-file case returns
SingleFileContext ==
  /\ ctx_out.base_dir = [Resolved EXCEPT !.parts = <<"work">>]
  /\ ctx_out.project_yaml = NoPath
  /\ ctx_out.patterns = <<>>
  /\ ctx_out.explicit_files = (IF ctx_in.explicit_files = <<>> THEN <<Resolved>>
                               ELSE ctx_in.explicit_files)

\* C17 as stated: for a path ending in .qmd the context is the file's
\* parent, no project file, no patterns whatever was passed, and the input
\* itself as the only explicit file unless some were passed.
C17_QmdPathIsSingleFile ==
  (pc \in {"resolved", "discovered"} /\ NameOf(ctx_in.input_path) = "book.qmd")
    => SingleFileContext

\* C17, amended: the same for a path that is not a directory and whose
\* resolved name has the suffix .qmd in any letter case.
C17_QmdFileIsSingleFile ==
  (/\ pc \in {"resolved", "discovered"}
   /\ ~ctx_in.is_dir
   /\ NameOf(ctx_in.input_path) \in {"book.qmd", "DOC.QMD"})
    => SingleFileContext

\* book.qmd, a file, passed with a pattern and no explicit file
C17_Witness ==
  /\ pc = "resolved"
  /\ ~ctx_in.is_dir
  /\ NameOf(ctx_in.input_path) = "book.qmd"
  /\ ~ctx_in.input_path.canon
  /\ ctx_in.file_patterns = <<"*.qmd">>
  /\ ctx_in.explicit_files = <<>>
  /\ ctx_out.patterns = <<>>
  /\ ctx_out.explicit_files = <<Resolved>>

\* C18: outside the single-file case (a directory, a project file, any other
\* file) the patterns and explicit files come back as passed; base_dir is
\* the directory for a directory and the parent otherwise; project_yaml is
\* the project file found in the directory or given, else None.
C18_InputsPassThrough ==
  (/\ pc \in {"resolved", "discovered"}
   /\ (ctx_in.is_dir \/ NameOf(ctx_in.input_path) \notin {"book.qmd", "DOC.QMD"}))
    => /\ ctx_out.patterns = ctx_in.file_patterns
       /\ ctx_out.explicit_files = ctx_in.explicit_files
       /\ ctx_in.is_dir =>
            /\ ctx_out.base_dir = Resolved
            /\ ctx_in.yml => ctx_out.project_yaml.parts = Resolved.parts \o <<"_quarto.yml">>
            /\ (~ctx_in.yml /\ ctx_in.yaml)
                 => ctx_out.project_yaml.parts = Resolved.parts \o <<"_quarto.yaml">>
            /\ (~ctx_in.yml /\ ~ctx_in.yaml) => ctx_out.project_yaml = NoPath
       /\ ~ctx_in.is_dir =>
            /\ ctx_out.base_dir.parts = <<"work">>
            /\ ctx_out.project_yaml =
                 (IF NameOf(ctx_in.input_path) \in {"_quarto.yml", "_quarto.yaml"}
                  THEN Resolved ELSE NoPath)

\* a directory with a project file, passed with a pattern and two explicit
\* files
C18_Witness ==
  /\ pc = "resolved"
  /\ ctx_in.is_dir
  /\ ctx_in.yml
  /\ ctx_in.file_patterns = <<"*.qmd">>
  /\ Len(ctx_in.explicit_files) = 2
  /\ ctx_out.patterns = <<"*.qmd">>
  /\ ctx_out.explicit_files = ctx_in.explicit_files
  /\ NameOf(ctx_out.project_yaml) = "_quarto.yml"

\* C19: a directory without project file, resolved with no explicit files
\* and no patterns and then searched for sources, yields all the .qmd files
\* under the directory; the discovery does not fail.
C19_DirectoryFallsBackToAllQmd ==
  (/\ pc = "discovered"
   /\ ctx_in.is_dir /\ ~ctx_in.yml /\ ~ctx_in.yaml
   /\ ctx_in.explicit_files = <<>> /\ ctx_in.file_patterns = <<>>)
    => /\ discovered.ok
       /\ discovered.sources = [k \in 1..Len(ctx_in.qmds) |->
                                  [Resolved EXCEPT !.parts = @ \o <<ctx_in.qmds[k]>>]]

\* the steps of one item: taken from the queue by a worker, its process
\* spawned, the process over, its exit code recorded
ItemStep(i) ==
  \/ ist'[i] = ist[i]
  \/ ist[i] = "queued" /\ ist'[i] = "spawning"
  \/ ist[i] = "spawning" /\ ist'[i] = "running"
  \/ ist[i] = "running" /\ ist'[i] = "exited"
  \/ ist[i] = "exited" /\ ist'[i] = "done"

\* C20: during a parallel run each script goes queued -> running ->
\* completed(exit_code) exactly once: every step of its state is a step
\* forward, a process is spawned for a script path no other process was
\* spawned for, and an exit code recorded for a script path is never changed
\* afterwards.
C20_EachScriptRunsOnce ==
  [][(pc = "join" /\ pc' = "join") =>
       /\ \A i \in DOMAIN ist : ItemStep(i)
       /\ \A i \in DOMAIN ist :
            (ist[i] = "spawning" /\ ist'[i] = "running") =>
              \A j \in {k \in DOMAIN scripts : scripts[k] = scripts[i]} \ {i} :
                ist[j] \in {"queued", "spawning"}
       /\ \A p \in DictKeys(results) :
            /\ p \in DictKeys(results')
            /\ DictGet(results', p, 0) = DictGet(results, p, 0)]_vars

\* C21: the worker tasks are cancelled only once the queue has drained, and
\* at that moment every worker is idle, suspended in queue.get() holding no
\* item, with no child process in flight; the cancellations are swallowed by
\* gather and the coordinator goes on to return the result map.
C21_CancelledOnlyWhenIdle ==
  [][/\ (pc = "join" /\ pc' = "gather") =>
          /\ queue = <<>>
          /\ unfinished = 0
          /\ \A w \in Workers : wst[w] = "get" /\ witem[w] = 0
          /\ \A i \in Items : ist[i] = "done"
          /\ \A w \in Workers : wst'[w] = "cancelling"
     /\ (pc = "gather" /\ pc' # "gather") =>
          /\ pc' = "reconcile"
          /\ results' = results
          /\ \A w \in Workers : wst[w] = "cancelled"]_vars

\* every run of one script path ended with the same exit code
FixedExitCodes == \A i, j \in Items : scripts[i] = scripts[j] => irc[i] = irc[j]

RECURSIVE CodeByDocument(_, _)
\* the exit code of each document's script, listed in manifest order whatever
\* the order the children ended in
CodeByDocument(i, acc) ==
  IF i > Len(scripts) THEN acc
  ELSE CodeByDocument(i + 1,
         DictSet(acc, DictGet(qmd_for_script, scripts[i], None), irc[i]))

\* the table run_parallel owes to the documents and their scripts' exit codes
TableOf(rc_by_qmd) ==
  LET blocks == CollectBlocks(sources)
  IN [k \in 1..Len(blocks) |-> ParallelRow(blocks[k], rc_by_qmd)]

\* C22: the table run_parallel returns is a function of the documents and of
\* the exit code of each script: with a fixed exit code per script, whatever
\* the order in which the children ended and the workers recorded them, the
\* rows are the same, in the order of the blocks.
C22_TableIndependentOfCompletionOrder ==
  (pc = "returned" /\ manifest # <<>> /\ FixedExitCodes) =>
    records = TableOf(IF interp THEN CodeByDocument(1, <<>>) ELSE <<>>)

\* two scripts recorded in the order opposite to the manifest's, one ended
\* with 0 and the other did not
C22_Witness ==
  /\ pc = "returned"
  /\ FixedExitCodes
  /\ Len(results) >= 2
  /\ results[1][1] = scripts[2]
  /\ results[2][1] = scripts[1]
  /\ irc[1] # 0
  /\ irc[2] = 0
  /\ \E k \in 1..Len(records) : records[k].ok
  /\ \E k \in 1..Len(records) : ~records[k].ok

\* the side files a worker writes for the item it holds: the siblings of the
\* item's script
SideFilesOf(i) == {WithSuffix(scripts[i], e) : e \in {"output", "stderr", "error"}}

\* the workers that hold an item: taken from the queue, not yet marked done
Held == {w \in Workers : witem[w] # 0}

\* C23: no two workers write the same side file: the workers that hold an
\* item at the same time hold different script paths, so the files they
\* write have different names, and a worker that finishes an item writes no
\* file that is already there from another item of the run.
C23_NoWriteContention ==
  [][pc = "join" =>
       /\ \A w, v \in Held :
            w # v => SideFilesOf(witem[w]) \cap SideFilesOf(witem[v]) = {}
       /\ \A i \in Items :
            Finishes(i) => SideFilesOf(i) \cap DictKeys(files) = {}]_vars

\* the next fence line after line j, 0 if there is none
FenceAfter(j) == NextOf(qmd_text, {"open", "close"}, j + 1)

\* the opening fences with, and without, a closing fence of their own
ClosedOpens ==
  {j \in 1..Len(qmd_text) :
     /\ qmd_text[j].k = "open"
     /\ FenceAfter(j) # 0
     /\ qmd_text[FenceAfter(j)].k = "close"}

UnclosedOpens ==
  {j \in 1..Len(qmd_text) : qmd_text[j].k = "open" /\ j \notin ClosedOpens}

\* C24: an opening fence without a closing fence of its own yields no block,
\* whatever follows it: no block returned starts in the lines between such a
\* fence and the next fence line (or the end of the text), and the blocks
\* returned without a filter are as many as the properly closed fences.
C24_UnclosedFenceYieldsNoBlock ==
  pc = "blocks" =>
    \A i \in 1..Len(found) :
      /\ \A h \in 1..Len(found[i].blocks) : \A j \in UnclosedOpens :
           LET e == IF FenceAfter(j) = 0 THEN Len(qmd_text) + 1 ELSE FenceAfter(j)
           IN ~(j < found[i].blocks[h].start_line /\ found[i].blocks[h].start_line <= e)
      /\ found[i].lang = None => Len(found[i].blocks) = Cardinality(ClosedOpens)

\* C25: the queue holds every script of the manifest before a worker takes
\* one and hands them out first in, first out: at any moment of the run the
\* items still waiting are the last ones of the manifest, queued in manifest
\* order, no item has left the queue while an earlier one waits, and there
\* are exactly n_workers worker tasks, however many scripts there are.
C25_FifoQueueAndExactlyNWorkers ==
  (pc \in {"join", "gather", "reconcile"} \/ (pc = "returned" /\ manifest # <<>>)) =>
    /\ scripts = ScriptsOf(manifest)
    /\ DOMAIN ist = 1..Len(manifest)
    /\ Range(queue) = {i \in Items : ist[i] = "queued"}
    /\ \A k \in 1..(Len(queue) - 1) : queue[k] < queue[k + 1]
    /\ \A i, j \in Items : (i < j /\ ist[j] # "queued") => ist[i] # "queued"
    /\ DOMAIN wst = 1..n_workers
    /\ DOMAIN witem = 1..n_workers

\* one worker and three scripts: the first is done, the second taken, the
\* third still waits
C25_Witness ==
  /\ pc = "join"
  /\ n_workers = 1
  /\ Len(scripts) = 3
  /\ ist[1] = "done"
  /\ ist[2] = "running"
  /\ ist[3] = "queued"
  /\ queue = <<3>>

\* C26: a row of the parallel table says ok=True only if the chapter script
\* of the block's document was spawned, ended, and had the exit code 0
\* recorded for it; a block whose chapter has no recorded outcome is not
\* reported ok=True.
C26_OkOnlyWithRecordedSuccess ==
  (pc = "returned" /\ manifest # <<>>) =>
    \A k \in 1..Len(records) :
      records[k].ok =>
        /\ Blocks[k].file
             \in {DictGet(qmd_for_script, p, None) : p \in DictKeys(results)}
        /\ \E i \in ItemsOf(Blocks[k].file) :
             /\ ist[i] = "done"
             /\ irc[i] = 0
             /\ DictGet(results, scripts[i], None) = 0

\* C27: in every mode each row of the table carries an error kind and an
\* error message exactly when it says ok=False; in particular a block of an
\* exec run that fails before its execution starts has an error kind.
C27_ErrorFieldsFollowOk ==
  \A k \in 1..Len(records) :
    /\ ~records[k].ok => (records[k].error_type # None /\ records[k].error_message # NoMsg)
    /\ records[k].ok => (records[k].error_type = None /\ records[k].error_message = NoMsg)

\* C28: with n_workers <= 0 and at least one script, no worker task exists,
\* every script stays queued, and the coordinator stays in queue.join():
\* run_parallel neither returns a table nor raises.
C28_NoWorkersNeverReturns ==
  (n_workers <= 0 /\ manifest # <<>>) =>
    /\ pc = "join"
    /\ Workers = {}
    /\ wst = <<>>
    /\ Len(queue) = Len(scripts)
    /\ \A i \in Items : ist[i] = "queued" /\ queue[i] = i
    /\ unfinished = Len(scripts)
    /\ results = <<>>
    /\ records = <<>>

\* a negative worker count and two scripts, the coordinator waiting
C28_Witness ==
  /\ n_workers < 0
  /\ pc = "join"
  /\ Len(scripts) = 2
  /\ unfinished = 2
  /\ queue = <<1, 2>>

\* C29: the session of exec mode is the one of the process: a call of run()
\* starts with the names the earlier calls left bound, and a block that
\* compiles and reads only names bound in the session, by this run or by an
\* earlier one, is reported ok=True.
C29_SessionOutlivesTheRun ==
  [][/\ (pc \in {"start", "returned"} /\ pc' = "loop") => (ns' = ns /\ ns0' = ns)
     /\ (pc = "loop" /\ mode = "exec" /\ idx' = idx + 1) =>
          ((Compiles(Blocks[idx + 1].code) /\ AllReads(Blocks[idx + 1].code) \subseteq ns)
             => records'[idx + 1].ok)]_vars

\* the second exec run of `print(x)` then `x = 1`: print(x) comes first and
\* is ok, x being bound by the first run only
C29_Witness ==
  /\ calls = 2
  /\ mode = "exec"
  /\ pc = "returned"
  /\ Len(records) = 2
  /\ Blocks[1].code = CodePrintX
  /\ Blocks[2].code = CodeAssignX
  /\ "x" \in ns0
  /\ records[1].ok

\* C30: distinct documents with python blocks get distinct scripts: no two
\* rows of the manifest name the same script, every script path stands for
\* one document and holds that document's sections, and at return every
\* document whose script ran has its own exit code in the map the rows are
\* made from.
C30_DistinctDocumentsDistinctScripts ==
  manifest # <<>> =>
    /\ \A r, q \in 1..Len(manifest) :
         manifest[r].py_file = manifest[q].py_file => r = q
    /\ \A i, j \in Items : scripts[i] = scripts[j] => i = j
    /\ Cardinality(ScriptFiles) = Len(manifest)
    /\ (pc = "returned" /\ interp /\ n_workers >= 1) =>
         \A r \in 1..Len(manifest) :
           DictGet(RcByQmd(results, qmd_for_script, <<>>),
                   Resolve(Under("base", manifest[r].file)), None) = irc[r]

====
